---- MODULE Spec2Model ----
(***************************************************************************)
(* A model of ai_cli.py: the math-markup rendering of AIClient             *)
(* (render_response, render_latex, unicode_replace) and the command loop   *)
(* of interactive_mode.                                                    *)
(*                                                                         *)
(* A string is a sequence of one-character strings; offsets are 0-based    *)
(* as in the Python source, so the character at offset i of t is t[i+1].   *)
(* A glyph outside ASCII is written by its code point ("U+03B1").          *)
(***************************************************************************)
EXTENDS Integers, Sequences, FiniteSets, TLC

VARIABLES
    \* module flags
    PYLATEXENC_SUPPORT,   \* line 42/44
    SYMPY_SUPPORT,        \* line 36/38
    \* render_response and render_latex
    text,                 \* render_response: the text argument
    use_images,           \* LATEX_SUPPORT and supports_images and RICH_IMAGE_SUPPORT
    pc,                   \* position in render_response
    pos,                  \* scan loop cursor
    blocks,               \* what the scan loop handed to console.print, in order
    ltext,                \* render_latex: the text being rewritten; ch its
                          \* characters, org the offset each had in the argument
                          \* (-1 when replace_math made it)
    lpass,                \* render_latex: index of the pattern being applied
    lpos,                 \* re.sub: offset where the next search starts
    lout,                 \* re.sub: output built so far in this pass
    lspans,               \* render_latex: the matches handed to replace_math
    rendered,             \* render_latex's return value
    \* replace_math and unicode_replace on one fragment
    group1,               \* match.group(1)
    latex,                \* replace_math: latex
    result,               \* unicode_replace: result
    converted,            \* replace_math: converted
    returned,             \* replace_math's return value
    used,                 \* which tier produced it
    cpc,                  \* position in replace_math
    \* interactive_mode
    write_mode,
    conversation_history, \* client.conversation_history
    calls,                \* the calls made on client, in order
    user_input,           \* what Prompt.ask returned last
    console,              \* the last message printed
    turns,                \* prompts answered so far
    ipc,                  \* "prompt" while the loop runs
    \* AIClient.send_message and _stream_response
    message,              \* send_message: the message argument
    stream,               \* send_message: the stream argument
    messages,             \* send_message: data["messages"]
    full_response,        \* _stream_response: full_response
    ret,                  \* what send_message returned last
    spc,                  \* position in send_message
    nlines,               \* _stream_response: lines read so far
    posted,               \* the events on the client so far, in order: each
                          \* requests.post with its messages, each failed call,
                          \* each clear_history
    sent                  \* calls of send_message so far

flags == <<PYLATEXENC_SUPPORT, SYMPY_SUPPORT>>

rvars == <<text, use_images, pc, pos, blocks, ltext, lpass, lpos, lout, lspans, rendered>>

cvars == <<group1, latex, result, converted, returned, used, cpc>>

ivars == <<write_mode, conversation_history, calls, user_input, console, turns, ipc>>

svars == <<message, stream, messages, full_response, ret, spc, nlines, posted, sent>>

vars == <<flags, rvars, cvars, ivars, svars>>

-----------------------------------------------------------------------------
(* Bounds of the model *)

MaxLen == 4

\* characters the bounded input texts are built from
Alphabet == {"$", "\\", "(", ")", " ", "\n", "x"}

-----------------------------------------------------------------------------
(* Python string primitives *)

\* text[a:b]
Slice(t, a, b) == IF b <= a THEN <<>> ELSE SubSeq(t, a + 1, b)

\* t[i:].startswith(w)
HasAt(t, i, w) ==
    /\ i >= 0
    /\ i + Len(w) <= Len(t)
    /\ \A k \in 1..Len(w) : t[i + k] = w[k]

\* the characters str.strip() removes
Whitespace == {" ", "\n", "\r", "\t"}

\* the characters of s
Range(s) == {s[k] : k \in 1..Len(s)}

SetMin(S) == CHOOSE m \in S : \A n \in S : m <= n
SetMax(S) == CHOOSE m \in S : \A n \in S : m >= n

\* str.strip(chars): drop the leading and trailing characters that are in cs
StripChars(t, cs) ==
    LET keep == {i \in 1..Len(t) : t[i] \notin cs}
    IN  IF keep = {} THEN <<>> ELSE SubSeq(t, SetMin(keep), SetMax(keep))

\* str.strip()
Strip(t) == StripChars(t, Whitespace)

\* all strings over cs of length at most n
RECURSIVE StringsUpTo(_, _)
StringsUpTo(cs, n) ==
    IF n = 0 THEN {<<>>}
    ELSE LET shorter == StringsUpTo(cs, n - 1)
         IN  shorter \cup {Append(s, c) : s \in {u \in shorter : Len(u) = n - 1}, c \in cs}

-----------------------------------------------------------------------------
(* Regular expressions of the form  OPEN (class){min,}? CLOSE                *)
(* with an optional (?<!\\) before OPEN and before CLOSE.                   *)

NoMatch == [start |-> -1, end |-> -1, g1s |-> -1, g1e |-> -1]

\* (?<!\\) at offset i: the character before offset i is not a backslash
NotAfterBackslash(t, i) == i = 0 \/ t[i] # "\\"

\* the offsets at which CLOSE can match for a match starting at s: the group
\* holds at least p.min characters, none of them in p.excl
CloseOffsets(p, t, s) ==
    {e \in (s + Len(p.open) + p.min)..(Len(t) - Len(p.close)) :
        /\ \A i \in (s + Len(p.open))..(e - 1) : t[i + 1] \notin p.excl
        /\ p.nlb => NotAfterBackslash(t, e)
        /\ HasAt(t, e, p.close)}

\* the match of p that starts exactly at offset s; the lazy group takes the
\* fewest characters that let CLOSE match
MatchAt(p, t, s) ==
    IF /\ p.nlb => NotAfterBackslash(t, s)
       /\ HasAt(t, s, p.open)
       /\ CloseOffsets(p, t, s) # {}
    THEN LET e == SetMin(CloseOffsets(p, t, s))
         IN  [start |-> s, end |-> e + Len(p.close),
              g1s |-> s + Len(p.open), g1e |-> e]
    ELSE NoMatch

\* pat.search(text, pos): the leftmost match starting at or after from
Search(p, t, from) ==
    LET starts == {s \in from..(Len(t) - 1) : MatchAt(p, t, s) # NoMatch}
    IN  IF starts = {} THEN NoMatch ELSE MatchAt(p, t, SetMin(starts))

\* match.group(1)
Group1(t, m) == Slice(t, m.g1s, m.g1e)

-----------------------------------------------------------------------------
(* render_response: the image path *)

\* the compiled patterns of render_response, in list order
ImagePatterns == <<
    [open |-> <<"$", "$">>, close |-> <<"$", "$">>, excl |-> {"$"},
     min |-> 0, nlb |-> TRUE, inline |-> FALSE],
    [open |-> <<"$">>, close |-> <<"$">>, excl |-> {"$", "\n", "\r"},
     min |-> 0, nlb |-> TRUE, inline |-> TRUE],
    [open |-> <<"\\", "[">>, close |-> <<"\\", "]">>, excl |-> {},
     min |-> 1, nlb |-> FALSE, inline |-> FALSE],
    [open |-> <<"\\", "(">>, close |-> <<"\\", ")">>, excl |-> {},
     min |-> 1, nlb |-> FALSE, inline |-> TRUE] >>

\* a tie goes to the later pattern
EarlierOrEqual(start, min_start) == start <= min_start

\* the test that lets a later pattern's match replace the best one so far
Earlier(start, min_start) == start < min_start

\* the for loop over patterns: the state after pattern i, from the state acc
\* = [match, min_start, rule] after pattern i - 1
RECURSIVE BestFrom(_, _, _, _)
BestFrom(t, p, i, acc) ==
    IF i > Len(ImagePatterns) THEN acc
    ELSE LET m == Search(ImagePatterns[i], t, p)
         IN  IF m # NoMatch /\ Earlier(m.start, acc.min_start)
             THEN BestFrom(t, p, i + 1, [match |-> m, min_start |-> m.start, rule |-> i])
             ELSE BestFrom(t, p, i + 1, acc)

BestMatch(t, p) ==
    BestFrom(t, p, 1, [match |-> NoMatch, min_start |-> Len(t), rule |-> 0])

\* one entry of the console output of the scan loop. from/to are the offsets
\* of the text the entry was made from; rule is the pattern that matched
Block(kind, content, inline, rule, from, to) ==
    [kind |-> kind, content |-> content, inline |-> inline, rule |-> rule,
     from |-> from, to |-> to]

\* the first character after pos is lost
NonMathOffByOne(t, p, m) == Slice(t, p + 1, m.start)

\* text[pos:match.start()]
NonMath(t, p, m) == Slice(t, p, m.start)

\* the cursor is left where the match began
NextPosAtStart(m) == m.start

\* pos = match.end()
NextPos(m) == m.end

-----------------------------------------------------------------------------
(* render_latex.unicode_replace: the table and regex substitutions *)

\* re.sub(pat, rep, t) for a pattern that is a literal string, and
\* str.replace(key, rep): every non-overlapping occurrence, left to right
RECURSIVE SubLiteral(_, _, _, _)
SubLiteral(t, key, rep, i) ==
    IF i >= Len(t) THEN <<>>
    ELSE IF HasAt(t, i, key) THEN rep \o SubLiteral(t, key, rep, i + Len(key))
    ELSE <<t[i + 1]>> \o SubLiteral(t, key, rep, i + 1)

\* the dict greek, in insertion order: <<pattern, glyph>>
greek == <<
    <<<<"\\", "a", "l", "p", "h", "a">>, "U+03B1">>,
    <<<<"\\", "A", "l", "p", "h", "a">>, "U+0391">>,
    <<<<"\\", "b", "e", "t", "a">>, "U+03B2">>,
    <<<<"\\", "B", "e", "t", "a">>, "U+0392">>,
    <<<<"\\", "g", "a", "m", "m", "a">>, "U+03B3">>,
    <<<<"\\", "G", "a", "m", "m", "a">>, "U+0393">>,
    <<<<"\\", "d", "e", "l", "t", "a">>, "U+03B4">>,
    <<<<"\\", "D", "e", "l", "t", "a">>, "U+0394">>,
    <<<<"\\", "e", "p", "s", "i", "l", "o", "n">>, "U+03B5">>,
    <<<<"\\", "v", "a", "r", "e", "p", "s", "i", "l", "o", "n">>, "U+03B5">>,
    <<<<"\\", "E", "p", "s", "i", "l", "o", "n">>, "U+0395">>,
    <<<<"\\", "z", "e", "t", "a">>, "U+03B6">>,
    <<<<"\\", "e", "t", "a">>, "U+03B7">>,
    <<<<"\\", "t", "h", "e", "t", "a">>, "U+03B8">>,
    <<<<"\\", "v", "a", "r", "t", "h", "e", "t", "a">>, "U+03D1">>,
    <<<<"\\", "i", "o", "t", "a">>, "U+03B9">>,
    <<<<"\\", "k", "a", "p", "p", "a">>, "U+03BA">>,
    <<<<"\\", "l", "a", "m", "b", "d", "a">>, "U+03BB">>,
    <<<<"\\", "L", "a", "m", "b", "d", "a">>, "U+039B">>,
    <<<<"\\", "m", "u">>, "U+03BC">>,
    <<<<"\\", "n", "u">>, "U+03BD">>,
    <<<<"\\", "x", "i">>, "U+03BE">>,
    <<<<"\\", "X", "i">>, "U+039E">>,
    <<<<"\\", "p", "i">>, "U+03C0">>,
    <<<<"\\", "P", "i">>, "U+03A0">>,
    <<<<"\\", "r", "h", "o">>, "U+03C1">>,
    <<<<"\\", "s", "i", "g", "m", "a">>, "U+03C3">>,
    <<<<"\\", "t", "a", "u">>, "U+03C4">>,
    <<<<"\\", "u", "p", "s", "i", "l", "o", "n">>, "U+03C5">>,
    <<<<"\\", "U", "p", "s", "i", "l", "o", "n">>, "U+03A5">>,
    <<<<"\\", "p", "h", "i">>, "U+03C6">>,
    <<<<"\\", "v", "a", "r", "p", "h", "i">>, "U+03D5">>,
    <<<<"\\", "P", "h", "i">>, "U+03A6">>,
    <<<<"\\", "c", "h", "i">>, "U+03C7">>,
    <<<<"\\", "p", "s", "i">>, "U+03C8">>,
    <<<<"\\", "P", "s", "i">>, "U+03A8">>,
    <<<<"\\", "o", "m", "e", "g", "a">>, "U+03C9">>,
    <<<<"\\", "O", "m", "e", "g", "a">>, "U+03A9">> >>

\* the dict symbols, in insertion order
symbols == <<
    <<<<"\\", "i", "n", "f", "t", "y">>, "U+221E">>,
    <<<<"\\", "p", "m">>, "U+00B1">>,
    <<<<"\\", "m", "p">>, "U+2213">>,
    <<<<"\\", "s", "u", "m">>, "U+2211">>,
    <<<<"\\", "p", "r", "o", "d">>, "U+220F">>,
    <<<<"\\", "i", "n", "t">>, "U+222B">>,
    <<<<"\\", "p", "a", "r", "t", "i", "a", "l">>, "U+2202">>,
    <<<<"\\", "n", "a", "b", "l", "a">>, "U+2207">>,
    <<<<"\\", "s", "q", "r", "t">>, "U+221A">>,
    <<<<"\\", "a", "p", "p", "r", "o", "x">>, "U+2248">>,
    <<<<"\\", "n", "e", "q">>, "U+2260">>,
    <<<<"\\", "l", "e">>, "U+2264">>,
    <<<<"\\", "g", "e">>, "U+2265">>,
    <<<<"\\", "t", "i", "m", "e", "s">>, "U+00D7">>,
    <<<<"\\", "d", "i", "v">>, "U+00F7">>,
    <<<<"\\", "t", "o">>, "U+2192">>,
    <<<<"\\", "l", "e", "f", "t", "a", "r", "r", "o", "w">>, "U+2190">> >>

\* for pat, rep in table.items(): result = re.sub(pat, rep, result),
\* from entry i on
RECURSIVE ApplyTable(_, _, _)
ApplyTable(t, table, i) ==
    IF i > Len(table) THEN t
    ELSE LET r == SubLiteral(t, table[i][1], <<table[i][2]>>, 0)
         IN  IF Len(r) >= 0 THEN ApplyTable(r, table, i + 1) ELSE r

\* the first offset at or after j whose character is not in cs (Len(t) if none)
SkipWhile(t, j, cs) ==
    LET stops == {k \in j..(Len(t) - 1) : t[k + 1] \notin cs}
    IN  IF stops = {} THEN (IF j > Len(t) THEN j ELSE Len(t)) ELSE SetMin(stops)

\* the match of \\frac\{([^}]+)\}\{([^}]+)\} starting at offset i:
\* [ok, end, a, b] with a and b the two groups
FracAt(t, i) ==
    LET open == <<"\\", "f", "r", "a", "c", "{">>
        a0   == i + Len(open)
        a1   == SkipWhile(t, a0, {c \in {t[k] : k \in 1..Len(t)} : c # "}"})
        b0   == a1 + 2
        b1   == SkipWhile(t, b0, {c \in {t[k] : k \in 1..Len(t)} : c # "}"})
    IN  IF /\ HasAt(t, i, open)
           /\ a1 > a0
           /\ HasAt(t, a1, <<"}", "{">>)
           /\ b1 > b0
           /\ HasAt(t, b1, <<"}">>)
        THEN [ok |-> TRUE, end |-> b1 + 1, a |-> Slice(t, a0, a1), b |-> Slice(t, b0, b1)]
        ELSE [ok |-> FALSE, end |-> i, a |-> <<>>, b |-> <<>>]

\* re.sub(r'\\frac\{([^}]+)\}\{([^}]+)\}', r'\1/\2', t), from offset i
RECURSIVE SubFrac(_, _)
SubFrac(t, i) ==
    IF i >= Len(t) THEN <<>>
    ELSE LET m == FracAt(t, i)
         IN  IF m.ok THEN m.a \o <<"/">> \o m.b \o SubFrac(t, m.end)
             ELSE <<t[i + 1]>> \o SubFrac(t, i + 1)

Digits == <<"0", "1", "2", "3", "4", "5", "6", "7", "8", "9">>
DigitSet == {Digits[k] : k \in 1..Len(Digits)}

\* int(d)
DigitValue(d) == (CHOOSE k \in 1..Len(Digits) : Digits[k] = d) - 1

\* chr(0x2070 + n) and chr(0x2080 + n) for n in 0..9
Superscripts == <<"U+2070", "U+2071", "U+2072", "U+2073", "U+2074",
                  "U+2075", "U+2076", "U+2077", "U+2078", "U+2079">>
Subscripts == <<"U+2080", "U+2081", "U+2082", "U+2083", "U+2084",
                "U+2085", "U+2086", "U+2087", "U+2088", "U+2089">>

\* superscript_digits / subscript_digits: ''.join(chr(base + int(d)) for d in digits)
ScriptDigits(digits, glyphs) ==
    [k \in 1..Len(digits) |-> glyphs[DigitValue(digits[k]) + 1]]

\* the match of  MARK *\{ *(\d+) *\}  starting at offset i
BracedAt(t, i, mark) ==
    LET j1 == SkipWhile(t, i + 1, {" "})
        j2 == SkipWhile(t, j1 + 1, {" "})
        j3 == SkipWhile(t, j2, DigitSet)
        j4 == SkipWhile(t, j3, {" "})
    IN  IF /\ HasAt(t, i, <<mark>>)
           /\ HasAt(t, j1, <<"{">>)
           /\ j3 > j2
           /\ HasAt(t, j4, <<"}">>)
        THEN [ok |-> TRUE, end |-> j4 + 1, digits |-> Slice(t, j2, j3)]
        ELSE [ok |-> FALSE, end |-> i, digits |-> <<>>]

\* re.sub(r'\^ *\{ *(\d+) *\}', superscript_digits, t) and the \_ form
RECURSIVE SubBraced(_, _, _, _)
SubBraced(t, i, mark, glyphs) ==
    IF i >= Len(t) THEN <<>>
    ELSE LET m == BracedAt(t, i, mark)
         IN  IF m.ok THEN ScriptDigits(m.digits, glyphs) \o SubBraced(t, m.end, mark, glyphs)
             ELSE <<t[i + 1]>> \o SubBraced(t, i + 1, mark, glyphs)

\* the match of  MARK *(\d+)  starting at offset i
PlainAt(t, i, mark) ==
    LET j1 == SkipWhile(t, i + 1, {" "})
        j2 == SkipWhile(t, j1, DigitSet)
    IN  IF HasAt(t, i, <<mark>>) /\ j2 > j1
        THEN [ok |-> TRUE, end |-> j2, digits |-> Slice(t, j1, j2)]
        ELSE [ok |-> FALSE, end |-> i, digits |-> <<>>]

\* re.sub(r'\^ *(\d+)', superscript_digits, t) and the \_ form
RECURSIVE SubPlain(_, _, _, _)
SubPlain(t, i, mark, glyphs) ==
    IF i >= Len(t) THEN <<>>
    ELSE LET m == PlainAt(t, i, mark)
         IN  IF m.ok THEN ScriptDigits(m.digits, glyphs) \o SubPlain(t, m.end, mark, glyphs)
             ELSE <<t[i + 1]>> \o SubPlain(t, i + 1, mark, glyphs)

\* result = latex.strip(' {}')
StripBraces(frag) == StripChars(frag, {" ", "{", "}"})

\* the Greek and symbol passes
ApplyGlyphs(t) ==
    LET r == ApplyTable(t, greek, 1)
    IN  IF Len(r) >= 0 THEN ApplyTable(r, symbols, 1) ELSE r

\* the superscript and subscript passes, braced then plain
ApplyScripts(t) ==
    LET s1 == SubBraced(t, 0, "^", Superscripts)
        s2 == SubBraced(s1, 0, "_", Subscripts)
        s3 == SubPlain(s2, 0, "^", Superscripts)
    IN  SubPlain(s3, 0, "_", Subscripts)

\* result.replace('^2', ...).replace('^3', ...).replace('^-1', ...)
CommonPowers(t) ==
    LET r1 == SubLiteral(t, <<"^", "2">>, <<"U+00B2">>, 0)
        r2 == SubLiteral(r1, <<"^", "3">>, <<"U+00B3">>, 0)
    IN  SubLiteral(r2, <<"^", "-", "1">>, <<"U+207B", "U+00B9">>, 0)

unicode_replace(frag) ==
    CommonPowers(ApplyScripts(SubFrac(ApplyGlyphs(StripBraces(frag)), 0)))

-----------------------------------------------------------------------------
(* render_latex: replace_math and the four re.sub passes *)

\* the patterns of render_latex, in list order (flags=re.DOTALL)
LatexPatterns == <<
    [open |-> <<"$", "$">>, close |-> <<"$", "$">>, excl |-> {},
     min |-> 1, nlb |-> FALSE, inline |-> FALSE],
    [open |-> <<"$">>, close |-> <<"$">>, excl |-> {"$", "\n"},
     min |-> 1, nlb |-> FALSE, inline |-> TRUE],
    [open |-> <<"\\", "[">>, close |-> <<"\\", "]">>, excl |-> {},
     min |-> 1, nlb |-> FALSE, inline |-> FALSE],
    [open |-> <<"\\", "(">>, close |-> <<"\\", ")">>, excl |-> {},
     min |-> 1, nlb |-> FALSE, inline |-> TRUE] >>

\* what LatexNodes2Text().latex_to_text can return when it does not raise
PylatexTexts == {<<>>, <<"y">>, <<"y", "y", "y">>}

\* what sympy.pretty can return when parse_latex does not raise
SympyTexts == {<<"y">>, <<"y", "\n", "y">>}

Failed == [ok |-> FALSE, out |-> <<>>]

\* the outcomes of the pylatexenc call: not made or raised (Failed), or a text
PylatexOutcomes ==
    IF PYLATEXENC_SUPPORT
    THEN {Failed} \cup {[ok |-> TRUE, out |-> r] : r \in PylatexTexts}
    ELSE {Failed}

\* the outcomes of parse_latex and sympy.pretty(...).replace('\n', ' ')
SympyOutcomes ==
    IF SYMPY_SUPPORT
    THEN {Failed} \cup
         {[ok |-> TRUE, out |-> SubLiteral(r, <<"\n">>, <<" ">>, 0)] : r \in SympyTexts}
    ELSE {Failed}

\* len(sympy_result) > len(converted) * 1.2
Richer(sympy_result, conv) == 10 * Len(sympy_result) > 12 * Len(conv)

\* what replace_math returns when no engine result is used
Fallback(frag, conv) == conv

\* replace_math, for a match whose group 1 is g, under the engine outcomes
\* py and sy
replace_math(g, py, sy) ==
    LET frag == Strip(g)
        conv == unicode_replace(frag)
    IN  IF py.ok THEN py.out
        ELSE IF sy.ok /\ Richer(sy.out, conv) THEN sy.out
        ELSE Fallback(frag, conv)

\* the original offsets of a run of n characters that replace_math made
Generated(n) == [k \in 1..n |-> -1]

\* one match of re.sub in pass lpass: the text before the match is copied, the
\* match is replaced by what replace_math returns, the search goes on after it
LatexSub ==
    /\ pc = "latex"
    /\ lpass <= Len(LatexPatterns)
    /\ LET p == LatexPatterns[lpass]
           m == Search(p, ltext.ch, lpos)
       IN  /\ m # NoMatch
           /\ \E py \in PylatexOutcomes, sy \in SympyOutcomes :
                LET g   == Group1(ltext.ch, m)
                    rep == replace_math(g, py, sy)
                IN  /\ lout' = [ch  |-> lout.ch \o Slice(ltext.ch, lpos, m.start) \o rep,
                                org |-> lout.org \o Slice(ltext.org, lpos, m.start)
                                                 \o Generated(Len(rep))]
                    /\ lspans' = Append(lspans,
                          [start    |-> ltext.org[m.start + 1],
                           end      |-> IF ltext.org[m.end] = -1 THEN -1
                                        ELSE ltext.org[m.end] + 1,
                           interior |-> Strip(g),
                           inline   |-> p.inline,
                           rule     |-> lpass,
                           escaped  |-> ~NotAfterBackslash(ltext.ch, m.start),
                           raw      |-> Slice(ltext.ch, m.start, m.end),
                           py       |-> py.ok,
                           sy       |-> sy.ok,
                           result   |-> rep])
           /\ lpos' = m.end
    /\ UNCHANGED <<text, use_images, pc, pos,
                   blocks, ltext, lpass, rendered>>
    /\ UNCHANGED <<flags, cvars, ivars, svars>>

\* re.sub finds no further match in pass lpass: the rest of the text is
\* copied and the next pattern is applied to the result
LatexPassEnd ==
    /\ pc = "latex"
    /\ lpass <= Len(LatexPatterns)
    /\ Search(LatexPatterns[lpass], ltext.ch, lpos) = NoMatch
    /\ ltext' = [ch  |-> lout.ch \o Slice(ltext.ch, lpos, Len(ltext.ch)),
                 org |-> lout.org \o Slice(ltext.org, lpos, Len(ltext.org))]
    /\ lout' = [ch |-> <<>>, org |-> <<>>]
    /\ lpos' = 0
    /\ lpass' = lpass + 1
    /\ UNCHANGED <<text, use_images, pc, pos,
                   blocks, lspans, rendered>>
    /\ UNCHANGED <<flags, cvars, ivars, svars>>

\* return text; render_response prints Markdown(rendered) and returns
LatexReturn ==
    /\ pc = "latex"
    /\ lpass > Len(LatexPatterns)
    /\ rendered' = ltext.ch
    /\ pc' = "done"
    /\ UNCHANGED <<text, use_images, pos, blocks,
                   ltext, lpass, lpos, lout, lspans>>
    /\ UNCHANGED <<flags, cvars, ivars, svars>>

-----------------------------------------------------------------------------
(* render_response *)

\* if not LATEX_SUPPORT or not supports_images or not RICH_IMAGE_SUPPORT:
\* the textual path; otherwise the scan loop starts at pos = 0
Dispatch ==
    /\ pc = "start"
    /\ pc' = IF use_images THEN "scan" ELSE "latex"
    /\ ltext' = IF use_images THEN ltext
                ELSE [ch |-> text, org |-> [k \in 1..Len(text) |-> k - 1]]
    /\ UNCHANGED <<text, use_images, pos, blocks,
                   lpass, lpos, lout, lspans, rendered>>
    /\ UNCHANGED <<flags, cvars, ivars, svars>>

\* the blocks printed for s = text[from:to] that is not math: nothing when it is
\* blank, else Markdown or, when that raised, Text
PlainBlocks(s, from, to, kind) ==
    IF Strip(s) = <<>> THEN <<>>
    ELSE <<Block(kind, s, FALSE, 0, from, to)>>

\* latex = match.group(1).strip()
MathContent(t, m) == Strip(Group1(t, m))

\* the block printed for a match: the image, or "$latex$" when
\* render_math_to_image returned nothing
MathBlock(t, best, img_ok) ==
    Block(IF img_ok THEN "image" ELSE "raw", MathContent(t, best.match),
          ImagePatterns[best.rule].inline, best.rule,
          best.match.start, best.match.end)

\* a loop iteration in which some pattern matches
ScanMatch ==
    /\ pc = "scan"
    /\ pos < Len(text)
    /\ LET best == BestMatch(text, pos)
       IN  /\ best.match # NoMatch
           /\ \E kind \in {"markdown", "text"}, img_ok \in BOOLEAN :
                blocks' = blocks \o PlainBlocks(NonMath(text, pos, best.match),
                                                     pos, best.match.start, kind)
                                 \o <<MathBlock(text, best, img_ok)>>
           /\ pos' = NextPos(best.match)
    /\ UNCHANGED <<text, use_images, pc,
                   ltext, lpass, lpos, lout, lspans, rendered>>
    /\ UNCHANGED <<flags, cvars, ivars, svars>>

\* a loop iteration in which no pattern matches: the rest is printed, break
ScanBreak ==
    /\ pc = "scan"
    /\ pos < Len(text)
    /\ BestMatch(text, pos).match = NoMatch
    /\ blocks' = blocks \o PlainBlocks(Slice(text, pos, Len(text)), pos, Len(text),
                                     "markdown")
    /\ pc' = "done"
    /\ UNCHANGED <<text, use_images, pos,
                   ltext, lpass, lpos, lout, lspans, rendered>>
    /\ UNCHANGED <<flags, cvars, ivars, svars>>

\* while pos < text_len: the loop ends
ScanExit ==
    /\ pc = "scan"
    /\ pos >= Len(text)
    /\ pc' = "done"
    /\ UNCHANGED <<text, use_images, pos, blocks,
                   ltext, lpass, lpos, lout, lspans, rendered>>
    /\ UNCHANGED <<flags, cvars, ivars, svars>>


-----------------------------------------------------------------------------
(* The scan loop of render_response as a function of the text: the math     *)
(* spans it identifies from offset p on, in order                           *)

RECURSIVE ImageSpans(_, _)
ImageSpans(t, p) ==
    IF p >= Len(t) THEN <<>>
    ELSE LET best == BestMatch(t, p)
         IN  IF best.match = NoMatch THEN <<>>
             ELSE <<[start    |-> best.match.start,
                     end      |-> best.match.end,
                     interior |-> MathContent(t, best.match),
                     inline   |-> ImagePatterns[best.rule].inline]>>
                  \o ImageSpans(t, NextPos(best.match))

-----------------------------------------------------------------------------
(* replace_math on one fragment, step by step *)

\* the fragment is stripped; pylatexenc, when present, is tried first and its
\* text is returned unless it raises
ReplaceMathEnter ==
    /\ cpc = "call"
    /\ latex' = Strip(group1)
    /\ \E py \in PylatexOutcomes :
         IF py.ok
         THEN /\ returned' = py.out
              /\ used' = "pylatexenc"
              /\ cpc' = "returned"
         ELSE /\ cpc' = "strip"
              /\ UNCHANGED <<returned, used>>
    /\ UNCHANGED <<group1, result, converted>>
    /\ UNCHANGED <<flags, rvars, ivars, svars>>

\* unicode_replace: result = latex.strip(' {}')
URStrip ==
    /\ cpc = "strip"
    /\ result' = StripBraces(latex)
    /\ cpc' = "greek"
    /\ UNCHANGED <<group1, latex, converted, returned, used>>
    /\ UNCHANGED <<flags, rvars, ivars, svars>>

\* unicode_replace: the loop over greek.items()
URGreek ==
    /\ cpc = "greek"
    /\ result' = ApplyTable(result, greek, 1)
    /\ cpc' = "symbols"
    /\ UNCHANGED <<group1, latex, converted, returned, used>>
    /\ UNCHANGED <<flags, rvars, ivars, svars>>

\* unicode_replace: the loop over symbols.items()
URSymbols ==
    /\ cpc = "symbols"
    /\ result' = ApplyTable(result, symbols, 1)
    /\ cpc' = "frac"
    /\ UNCHANGED <<group1, latex, converted, returned, used>>
    /\ UNCHANGED <<flags, rvars, ivars, svars>>

\* unicode_replace: fractions
URFrac ==
    /\ cpc = "frac"
    /\ result' = SubFrac(result, 0)
    /\ cpc' = "scripts"
    /\ UNCHANGED <<group1, latex, converted, returned, used>>
    /\ UNCHANGED <<flags, rvars, ivars, svars>>

\* unicode_replace: superscripts and subscripts
URScripts ==
    /\ cpc = "scripts"
    /\ result' = ApplyScripts(result)
    /\ cpc' = "powers"
    /\ UNCHANGED <<group1, latex, converted, returned, used>>
    /\ UNCHANGED <<flags, rvars, ivars, svars>>

\* unicode_replace: common powers, return result; converted = the result
URPowers ==
    /\ cpc = "powers"
    /\ result' = CommonPowers(result)
    /\ converted' = CommonPowers(result)
    /\ cpc' = "sympy"
    /\ UNCHANGED <<group1, latex, returned, used>>
    /\ UNCHANGED <<flags, rvars, ivars, svars>>

\* the sympy enhancement, then return converted
ReplaceMathReturn ==
    /\ cpc = "sympy"
    /\ \E sy \in SympyOutcomes :
         IF sy.ok /\ Richer(sy.out, converted)
         THEN returned' = sy.out /\ used' = "sympy"
         ELSE returned' = Fallback(latex, converted) /\ used' = "table"
    /\ cpc' = "returned"
    /\ UNCHANGED <<group1, latex, result, converted>>
    /\ UNCHANGED <<flags, rvars, ivars, svars>>

MaxFragLen == 3
MaxArg == 1

\* characters the bounded fragments are built from
FragAlphabet == {"{", "}", " ", "^", "_", "2", "x"}

\* characters the numerators and denominators are built from
ArgAlphabet == {"1", "2", "x"}

FracOf(a, b) == <<"\\", "f", "r", "a", "c", "{">> \o a \o <<"}", "{">> \o b \o <<"}">>

FracArgs == StringsUpTo(ArgAlphabet, MaxArg) \ {<<>>}

TableKeys == {greek[k][1] : k \in 1..Len(greek)} \cup {symbols[k][1] : k \in 1..Len(symbols)}

AlphaPlusBeta ==
    <<"\\", "a", "l", "p", "h", "a", " ", "+", " ", "\\", "b", "e", "t", "a">>

\* fragments of the specification's examples and around them
ExampleFragments == {
    AlphaPlusBeta,
    <<"x", "^", "{", "1", "0", "}">>,
    <<"x", "^", "{", "1", "0", "}", "y">>,
    <<"x", "_", "{", " ", "1", "2", " ", "}", "+", "y", "^", " ", "3">>,
    <<"x", "^", "-", "1">>,
    <<"\\", "f", "r", "a", "c", "{", "1", "}", "{", "2", "}", "x">>,
    <<" ", "{", "\\", "p", "i", "}", " ">>,
    <<"\\", "g", "e", "q", " ", "\\", "l", "e", "f", "t", "(", "x">> }

Fragments ==
    StringsUpTo(FragAlphabet, MaxFragLen) \cup TableKeys \cup ExampleFragments
        \cup {FracOf(a, b) : a \in FracArgs, b \in FracArgs}

-----------------------------------------------------------------------------
(* interactive_mode and the AIClient calls it makes *)

MaxInputs == 3

UpperLetters == <<"A", "B", "C", "D", "E", "F", "G", "H", "I", "J", "K", "L", "M",
                  "N", "O", "P", "Q", "R", "S", "T", "U", "V", "W", "X", "Y", "Z">>
LowerLetters == <<"a", "b", "c", "d", "e", "f", "g", "h", "i", "j", "k", "l", "m",
                  "n", "o", "p", "q", "r", "s", "t", "u", "v", "w", "x", "y", "z">>

\* str.lower()
Lower(s) ==
    [k \in 1..Len(s) |->
        IF \E j \in 1..Len(UpperLetters) : UpperLetters[j] = s[k]
        THEN LowerLetters[CHOOSE j \in 1..Len(UpperLetters) : UpperLetters[j] = s[k]]
        ELSE s[k]]

\* Prompt.ask returns the line the user typed with surrounding whitespace
\* removed (rich strips the response before it returns it)
PromptAsk(line) == Strip(line)

\* user_input.startswith('/')
StartsWithSlash(s) == HasAt(s, 0, <<"/">>)

\* user_input.split(maxsplit=1): the first whitespace-delimited word and, when
\* something other than whitespace follows it, the rest of the line
Split1(s) ==
    LET a == SkipWhile(s, 0, Whitespace)
        b == SkipWhile(s, a, Range(s) \ Whitespace)
        c == SkipWhile(s, b, Whitespace)
    IN  IF a >= Len(s) THEN <<>>
        ELSE IF c >= Len(s) THEN <<Slice(s, a, b)>>
        ELSE <<Slice(s, a, b), Slice(s, c, Len(s))>>

\* the value None of write_mode. write_mode is otherwise cmd_parts[1], which
\* is never empty, so "if write_mode" tells the two apart
None == <<>>

Exit  == <<"/", "e", "x", "i", "t">>
Quit  == <<"/", "q", "u", "i", "t">>
Clear == <<"/", "c", "l", "e", "a", "r">>
Read  == <<"/", "r", "e", "a", "d">>
Write == <<"/", "w", "r", "i", "t", "e">>

\* what the remote endpoint can answer
Replies == {<<>>, <<"o", "k">>}

Entry(role, content) == [role |-> role, content |-> content]

Call(name, arg1, arg2) == [name |-> name, arg1 |-> arg1, arg2 |-> arg2]

\* send_message: the user entry is appended; the request then fails, or the
\* response is received in full and the assistant entry is appended.
\* The result is [history, response].
SendMessageResults(history, msg) ==
    LET asked == Append(history, Entry("user", msg))
    IN  {[history |-> asked, response |-> <<"E", "r", "r", "o", "r">>]}
        \cup {[history |-> Append(asked, Entry("assistant", r)), response |-> r] :
                r \in Replies}

\* the lines a user can type
Lines == {
    <<>>,
    <<" ">>,
    <<"h", "i">>,
    <<" ", "y", "o", " ">>,
    <<"a", "/", "b">>,
    Exit,
    Quit,
    Clear,
    <<"/", "C", "l", "e", "a", "r">>,
    Read \o <<" ", "f">>,
    Read,
    Write \o <<" ", "f">>,
    Write \o <<" ", " ", "g", " ">>,
    <<"/", "W", "R", "I", "T", "E", " ", "h", " ", "i">>,
    Write,
    <<"/", "w", "r", "i", "t", "e", "f">>,
    <<"/", "f", "o", "o">> }

\* write_mode is left as it was
AfterWriteKept(mode) == mode

\* write_mode = None, after the message was written to the pending file
AfterWrite(mode) == None

\* one turn of the while loop: Prompt.ask returns, the input is handled
Turn ==
    /\ ipc = "prompt"
    /\ turns < MaxInputs
    /\ turns' = turns + 1
    /\ UNCHANGED <<flags, rvars, cvars, svars>>
    /\ \E line \in Lines :
         LET input     == PromptAsk(line)
             cmd_parts == Split1(input)
             cmd       == Lower(cmd_parts[1])
         IN  /\ user_input' = input
             /\ IF Strip(input) = <<>>
                THEN /\ console' = "none"
                     /\ UNCHANGED <<write_mode, conversation_history, calls, ipc>>
                ELSE IF StartsWithSlash(input)
                THEN IF cmd \in {Exit, Quit}
                     THEN /\ console' = "goodbye"
                          /\ ipc' = "exited"
                          /\ UNCHANGED <<write_mode, conversation_history, calls>>
                     ELSE IF cmd = Clear
                     THEN /\ conversation_history' = <<>>
                          /\ calls' = Append(calls, Call("clear_history", <<>>, <<>>))
                          /\ console' = "cleared"
                          /\ UNCHANGED <<write_mode, ipc>>
                     ELSE IF cmd = Read /\ Len(cmd_parts) > 1
                     THEN /\ calls' = Append(calls, Call("read_file", cmd_parts[2], <<>>))
                          /\ console' = "file"
                          /\ UNCHANGED <<write_mode, conversation_history, ipc>>
                     ELSE IF cmd = Write /\ Len(cmd_parts) > 1
                     THEN /\ write_mode' = cmd_parts[2]
                          /\ console' = "next message will be written"
                          /\ UNCHANGED <<conversation_history, calls, ipc>>
                     ELSE /\ console' = "unknown command"
                          /\ UNCHANGED <<write_mode, conversation_history, calls, ipc>>
                ELSE IF write_mode # None
                THEN /\ calls' = Append(calls, Call("write_file", write_mode, input))
                     /\ console' = "write result"
                     /\ write_mode' = AfterWrite(write_mode)
                     /\ UNCHANGED <<conversation_history, ipc>>
                ELSE \E res \in SendMessageResults(conversation_history, input) :
                     /\ conversation_history' = res.history
                     /\ calls' = Append(calls, Call("send_message", input, res.response))
                     /\ console' = "response"
                     /\ UNCHANGED <<write_mode, ipc>>

\* KeyboardInterrupt at the prompt: a hint is printed, the loop goes on
Interrupt ==
    /\ ipc = "prompt"
    /\ console' = "use /exit to quit"
    /\ UNCHANGED <<write_mode, conversation_history, calls, user_input, turns, ipc>>
    /\ UNCHANGED <<flags, rvars, cvars, svars>>

\* EOFError at the prompt: break
EndOfInput ==
    /\ ipc = "prompt"
    /\ ipc' = "exited"
    /\ console' = "none"
    /\ UNCHANGED <<write_mode, conversation_history, calls, user_input, turns>>
    /\ UNCHANGED <<flags, rvars, cvars, svars>>

-----------------------------------------------------------------------------
(* AIClient.send_message, _stream_response and clear_history *)

MaxCalls == 2
MaxLines == 2

\* what get_system_prompt returns
SystemPrompt == <<"s">>

\* the message arguments of send_message
Prompts == {<<"a">>, <<"b">>}

\* the content of a streamed delta, and of a whole non-streamed answer
Deltas == {<<"o">>, <<"k">>}

\* str(e) of the exceptions the request can raise
Exceptions == {<<"t", "i", "m", "e", "o", "u", "t">>}

ErrorPrefix ==
    <<"E", "r", "r", "o", "r", " ", "c", "o", "m", "m", "u", "n", "i", "c", "a",
      "t", "i", "n", "g", " ", "w", "i", "t", "h", " ", "A", "I", ":", " ">>

\* f"Error communicating with AI: {e}"
ErrorText(e) == ErrorPrefix \o e

\* messages = [{"role": "system", ...}] + self.conversation_history
RequestMessages(history) == <<Entry("system", SystemPrompt)>> \o history

\* the history is put back as it was before the call
AfterFailureRolledBack(history) == SubSeq(history, 1, Len(history) - 1)

\* except Exception as e: return ...; conversation_history is not touched
AfterFailure(history) == history

\* the lines response.iter_lines() can yield before [DONE], by what the loop
\* body does with them:
\*   blank      if line: is false
\*   other      the line does not start with 'data: '
\*   badjson    json.loads raises JSONDecodeError: continue
\*   nochoices  no 'choices' key, or an empty list
\*   delta      choices[0].delta.content is the text (possibly empty)
StreamLines ==
    {[kind |-> k, content |-> <<>>] : k \in {"blank", "other", "badjson", "nochoices", "delta"}}
        \cup {[kind |-> "delta", content |-> c] : c \in Deltas}

\* full_response after the loop body ran on a line
Accumulate(full, line) ==
    IF line.kind = "delta" /\ line.content # <<>> THEN full \o line.content ELSE full

\* an entry of posted
Event(ev, ms, m, at) == [ev |-> ev, messages |-> ms, message |-> m, at |-> at]

\* the positions of send_message at which no call is in progress
Idle == {"idle", "returned", "failed", "interrupted"}

\* send_message up to the request: the user entry is appended, messages is
\* built from the system prompt and the history
SendMessage ==
    /\ spc \in Idle
    /\ sent < MaxCalls
    /\ \E m \in Prompts, st \in BOOLEAN :
         /\ message' = m
         /\ stream' = st
         /\ conversation_history' = Append(conversation_history, Entry("user", m))
         /\ messages' = RequestMessages(conversation_history')
    /\ full_response' = <<>>
    /\ nlines' = 0
    /\ sent' = sent + 1
    /\ spc' = "post"
    /\ UNCHANGED <<ret, posted>>
    /\ UNCHANGED <<write_mode, calls, user_input, console, turns, ipc>>
    /\ UNCHANGED <<flags, rvars, cvars>>

\* requests.post or raise_for_status raises, or (stream=False) the body is
\* not JSON or has no choices[0].message.content: the except branch returns
\* the error text
PostFails ==
    /\ spc = "post"
    /\ \E e \in Exceptions : ret' = ErrorText(e)
    /\ conversation_history' = AfterFailure(conversation_history)
    /\ posted' = posted \o <<Event("post", messages, message, 0),
                             Event("failed", <<>>, message, Len(conversation_history))>>
    /\ spc' = "failed"
    /\ UNCHANGED <<message, stream, messages, full_response, nlines, sent>>
    /\ UNCHANGED <<write_mode, calls, user_input, console, turns, ipc>>
    /\ UNCHANGED <<flags, rvars, cvars>>

\* stream=False: the answer arrived whole; the assistant entry is appended
\* and the answer returned
PostReply ==
    /\ spc = "post"
    /\ ~stream
    /\ \E c \in Deltas \cup {<<>>} :
         /\ conversation_history' = Append(conversation_history, Entry("assistant", c))
         /\ ret' = c
    /\ posted' = Append(posted, Event("post", messages, message, 0))
    /\ spc' = "returned"
    /\ UNCHANGED <<message, stream, messages, full_response, nlines, sent>>
    /\ UNCHANGED <<write_mode, calls, user_input, console, turns, ipc>>
    /\ UNCHANGED <<flags, rvars, cvars>>

\* stream=True: the request was accepted, the lines are about to be read
PostStream ==
    /\ spc = "post"
    /\ stream
    /\ posted' = Append(posted, Event("post", messages, message, 0))
    /\ spc' = "streaming"
    /\ UNCHANGED <<message, stream, messages, full_response, ret, nlines, sent>>
    /\ UNCHANGED <<conversation_history, write_mode, calls, user_input, console, turns, ipc>>
    /\ UNCHANGED <<flags, rvars, cvars>>

\* one pass of the loop over response.iter_lines() for a line other than
\* 'data: [DONE]'
StreamLine ==
    /\ spc = "streaming"
    /\ nlines < MaxLines
    /\ \E line \in StreamLines : full_response' = Accumulate(full_response, line)
    /\ nlines' = nlines + 1
    /\ UNCHANGED <<message, stream, messages, ret, spc, posted, sent>>
    /\ UNCHANGED <<conversation_history, write_mode, calls, user_input, console, turns, ipc>>
    /\ UNCHANGED <<flags, rvars, cvars>>

\* 'data: [DONE]' is read or iter_lines is exhausted: the loop ends, the
\* assistant entry is appended, full_response is returned
StreamEnd ==
    /\ spc = "streaming"
    /\ conversation_history' = Append(conversation_history, Entry("assistant", full_response))
    /\ ret' = full_response
    /\ spc' = "returned"
    /\ UNCHANGED <<message, stream, messages, full_response, nlines, posted, sent>>
    /\ UNCHANGED <<write_mode, calls, user_input, console, turns, ipc>>
    /\ UNCHANGED <<flags, rvars, cvars>>

\* iter_lines raises (the connection broke) or a chunk makes the loop body
\* raise something other than JSONDecodeError: the exception leaves
\* _stream_response and the except branch of send_message returns the error text
StreamFails ==
    /\ spc = "streaming"
    /\ \E e \in Exceptions : ret' = ErrorText(e)
    /\ conversation_history' = AfterFailure(conversation_history)
    /\ posted' = Append(posted, Event("failed", <<>>, message, Len(conversation_history)))
    /\ spc' = "failed"
    /\ UNCHANGED <<message, stream, messages, full_response, nlines, sent>>
    /\ UNCHANGED <<write_mode, calls, user_input, console, turns, ipc>>
    /\ UNCHANGED <<flags, rvars, cvars>>

\* KeyboardInterrupt while the lines are read: it is no Exception, so it
\* leaves send_message without a return value
StreamInterrupted ==
    /\ spc = "streaming"
    /\ spc' = "interrupted"
    /\ UNCHANGED <<message, stream, messages, full_response, ret, nlines, posted, sent>>
    /\ UNCHANGED <<conversation_history, write_mode, calls, user_input, console, turns, ipc>>
    /\ UNCHANGED <<flags, rvars, cvars>>

\* clear_history, between two calls of send_message
ClearHistory ==
    /\ spc \in Idle
    /\ conversation_history # <<>>
    /\ conversation_history' = <<>>
    /\ posted' = Append(posted, Event("clear", <<>>, <<>>, 0))
    /\ UNCHANGED <<message, stream, messages, full_response, ret, spc, nlines, sent>>
    /\ UNCHANGED <<write_mode, calls, user_input, console, turns, ipc>>
    /\ UNCHANGED <<flags, rvars, cvars>>

-----------------------------------------------------------------------------
(* Specifications *)

\* inputs longer than MaxLen: the examples of the specification and texts that
\* mix the four delimiter forms
ExampleTexts == {
    <<"$", "$", "x", "^", "2", "$", "$">>,
    <<"p", "r", "i", "c", "e", " ", "i", "s", " ", "$", "5", " ", "a", "n", "d", " ", "m", "o", "r", "e", " ", "t", "e", "x", "t">>,
    <<"\\", "$", "5", " ", "a", "n", "d", " ", "\\", "$", "6">>,
    <<"$", "$", "x", "$", "$">>,
    <<"\\", "[", "x", "\\", "]">>,
    <<"\\", "(", "x", "\\", ")">>,
    <<"$", "x", "$", " ", "$", "x", "$">>,
    <<"$", "$", "a", "$", "b", "$", "$", " ", "$", "c", "$">>,
    <<"$", "\\", "f", "r", "a", "c", "{", "1", "}", "{", "2", "}", "$">>,
    <<"$", "\\", "a", "l", "p", "h", "a", " ", "+", " ", "\\", "b", "e", "t", "a", "$">>,
    <<"$", "\\", "l", "e", "f", "t", "a", "r", "r", "o", "w", "$">>,
    <<"$", "{", "}", "$">>,
    <<"$", "x", "^", "{", "1", "0", "}", "$">>,
    <<"a", " ", "$", "x", "$", " ", "b", " ", "$", "$", "y", "$", "$", " ", "c">>,
    <<"$", "$", "$", "$">>,
    <<"$", "a", "\n", "$", "b", "$">>,
    <<"\\", "[", " ", "x", " ", "\\", "]", " ", "\\", "(", " ", "y", " ", "\\", ")">>,
    <<"$", "$", " ", "x", " ", "$", "$">>,
    <<"x", "\\", "$", "$", "a", "$">>,
    <<"\\", "(", "$", "a", "$", "\\", ")">> }


Texts == StringsUpTo(Alphabet, MaxLen) \cup ExampleTexts

RenderStart ==
    /\ pc = "start"
    /\ pos = 0
    /\ blocks = <<>>
    /\ ltext = [ch |-> <<>>, org |-> <<>>]
    /\ lpass = 1
    /\ lpos = 0
    /\ lout = [ch |-> <<>>, org |-> <<>>]
    /\ lspans = <<>>
    /\ rendered = <<>>

ConvertStart ==
    /\ cpc = "call"
    /\ latex = <<>>
    /\ result = <<>>
    /\ converted = <<>>
    /\ returned = <<>>
    /\ used = "none"

InteractiveStart ==
    /\ write_mode = None
    /\ conversation_history = <<>>
    /\ calls = <<>>
    /\ user_input = <<>>
    /\ console = "banner"
    /\ turns = 0
    /\ ipc = "prompt"

SendStart ==
    /\ message = <<>>
    /\ stream = FALSE
    /\ messages = <<>>
    /\ full_response = <<>>
    /\ ret = <<>>
    /\ spc = "idle"
    /\ nlines = 0
    /\ posted = <<>>
    /\ sent = 0

\* render_response is called on a text
Init ==
    /\ PYLATEXENC_SUPPORT \in BOOLEAN
    /\ SYMPY_SUPPORT \in BOOLEAN
    /\ text \in Texts
    /\ use_images \in BOOLEAN
    /\ RenderStart
    /\ group1 = <<>> /\ ConvertStart
    /\ InteractiveStart
    /\ SendStart

Next ==
    \/ Dispatch
    \/ LatexSub
    \/ LatexPassEnd
    \/ LatexReturn
    \/ ScanMatch
    \/ ScanBreak
    \/ ScanExit

Spec == Init /\ [][Next]_vars

\* replace_math is called on a fragment
ConvertInit ==
    /\ PYLATEXENC_SUPPORT \in BOOLEAN
    /\ SYMPY_SUPPORT \in BOOLEAN
    /\ group1 \in Fragments
    /\ ConvertStart
    /\ text = <<>> /\ use_images = FALSE /\ RenderStart
    /\ InteractiveStart
    /\ SendStart

ConvertNext ==
    \/ ReplaceMathEnter
    \/ URStrip
    \/ URGreek
    \/ URSymbols
    \/ URFrac
    \/ URScripts
    \/ URPowers
    \/ ReplaceMathReturn

SpecConvert == ConvertInit /\ [][ConvertNext]_vars

\* interactive_mode is entered with a new client
InteractiveInit ==
    /\ PYLATEXENC_SUPPORT = FALSE
    /\ SYMPY_SUPPORT = FALSE
    /\ InteractiveStart
    /\ text = <<>> /\ use_images = FALSE /\ RenderStart
    /\ group1 = <<>> /\ ConvertStart
    /\ SendStart

InteractiveNext ==
    \/ Turn
    \/ Interrupt
    \/ EndOfInput

SpecInteractive == InteractiveInit /\ [][InteractiveNext]_vars

\* a new client, on which send_message and clear_history are called
SendInit ==
    /\ PYLATEXENC_SUPPORT = FALSE
    /\ SYMPY_SUPPORT = FALSE
    /\ SendStart
    /\ InteractiveStart
    /\ text = <<>> /\ use_images = FALSE /\ RenderStart
    /\ group1 = <<>> /\ ConvertStart

SendNext ==
    \/ SendMessage
    \/ PostFails
    \/ PostReply
    \/ PostStream
    \/ StreamLine
    \/ StreamEnd
    \/ StreamFails
    \/ StreamInterrupted
    \/ ClearHistory

SpecSend == SendInit /\ [][SendNext]_vars

-----------------------------------------------------------------------------
(* Properties of the rendering *)

IsMath(b) == b.kind \in {"image", "raw"}

MathBlocks == {k \in 1..Len(blocks) : IsMath(blocks[k])}

\* the end of the part of the text the scan loop has dealt with
Scanned == IF pc = "done" THEN Len(text) ELSE pos

\* a block with the delimiters of its rule put back
Restored(b) ==
    IF IsMath(b)
    THEN ImagePatterns[b.rule].open \o b.content \o ImagePatterns[b.rule].close
    ELSE b.content

RECURSIVE Reconstruct(_)
Reconstruct(bs) == IF bs = <<>> THEN <<>> ELSE Restored(Head(bs)) \o Reconstruct(Tail(bs))

XSquared == <<"$", "$", "x", "^", "2", "$", "$">>

\* C2: where a double-dollar block span and a single-dollar inline span both
\* match at the start of an emitted span, the span is the block one; and in
\* both paths "$$x^2$$" is one block span with content x^2.
C2_BlockWinsTie ==
    /\ use_images =>
         \A k \in MathBlocks :
            LET b  == blocks[k]
                m1 == MatchAt(ImagePatterns[1], text, b.from)
                m2 == MatchAt(ImagePatterns[2], text, b.from)
            IN  (m1 # NoMatch /\ m2 # NoMatch) =>
                    (b.rule = 1 /\ ~b.inline /\ b.to = m1.end)
    /\ (use_images /\ pc = "done" /\ text = XSquared) =>
         /\ Len(blocks) = 1
         /\ IsMath(blocks[1]) /\ ~blocks[1].inline
         /\ blocks[1].content = <<"x", "^", "2">>
    /\ (~use_images /\ pc \in {"latex", "done"} /\ lpass > 1) =>
         LET m == Search(LatexPatterns[1], text, 0)
         IN  m # NoMatch =>
               /\ Len(lspans) >= 1
               /\ lspans[1].rule = 1 /\ ~lspans[1].inline
               /\ lspans[1].start = m.start /\ lspans[1].end = m.end
    /\ (~use_images /\ pc = "done" /\ text = XSquared) =>
         /\ Len(lspans) = 1
         /\ ~lspans[1].inline
         /\ lspans[1].interior = <<"x", "^", "2">>

\* a tie between the block and the inline pattern was decided, in each path
C2_Witness ==
    /\ pc = "done" /\ text = XSquared
    /\ \/ use_images /\ Len(blocks) = 1
       \/ ~use_images /\ Len(lspans) = 1

\* the offsets at which an opening marker stands with no closing marker of
\* its form after it
Unterminated(t) ==
    {s \in 0..(Len(t) - 1) :
        \E r \in 1..Len(ImagePatterns) :
            LET p == ImagePatterns[r]
            IN  /\ HasAt(t, s, p.open)
                /\ \A e \in (s + Len(p.open))..Len(t) : ~HasAt(t, e, p.close)}

\* C3: no math span starts at an opening marker that has no matching closing
\* marker before the end of the text, in either path.
C3_UnterminatedIsPlain ==
    /\ use_images => \A k \in MathBlocks : blocks[k].from \notin Unterminated(text)
    /\ ~use_images => \A k \in 1..Len(lspans) : lspans[k].start \notin Unterminated(text)

\* C4: no dollar-form span begins at a "$" whose previous character is a
\* backslash, in either path.
C4_EscapedDollarNeverOpens ==
    /\ use_images =>
         \A k \in MathBlocks :
            blocks[k].rule \in {1, 2} => NotAfterBackslash(text, blocks[k].from)
    /\ ~use_images =>
         \A k \in 1..Len(lspans) : lspans[k].rule \in {1, 2} => ~lspans[k].escaped

\* C7: when neither engine gave a result and the table-based step produced
\* the empty string, the span is replaced by the original fragment in its
\* delimiters (the matched text itself), not by the empty string.
C7_EmptyConversionKeepsFragment ==
    \A k \in 1..Len(lspans) :
        LET sp == lspans[k]
        IN  (~sp.py /\ ~sp.sy /\ unicode_replace(sp.interior) = <<>>)
                => (sp.result = sp.raw /\ sp.result # <<>>)

\* C8: an iteration of the scan loop either ends the loop or moves pos to a
\* strictly greater offset that is at most len(text), and the iterations made
\* so far (one math block each) never exceed pos, so never len(text).
C8_ScanLoopTerminates ==
    [][pc = "scan" =>
          \/ pc' = "done"
          \/ /\ pos < pos' /\ pos' <= Len(text)
             /\ Cardinality({k \in 1..Len(blocks') : IsMath(blocks'[k])}) <= pos']_vars

\* the loop has ended after two iterations that matched
C8_Witness ==
    use_images /\ pc = "done" /\ Cardinality(MathBlocks) >= 2

SpanKey(sp) ==
    [start |-> sp.start, end |-> sp.end, interior |-> sp.interior, inline |-> sp.inline]

\* C9: the math spans render_latex substitutes are the math spans the scan
\* loop of render_response identifies on the same text.
C9_SameSegmentation ==
    (~use_images /\ pc = "done") =>
        {SpanKey(lspans[k]) : k \in 1..Len(lspans)} = Range(ImageSpans(text, 0))

-----------------------------------------------------------------------------
(* Properties of the conversion *)

\* C5: with neither pylatexenc nor sympy present, the fragment \frac{A}{B},
\* A and B non-empty and brace-free, converts to A/B.
C5_FractionRewritten ==
    (cpc = "returned" /\ ~PYLATEXENC_SUPPORT /\ ~SYMPY_SUPPORT) =>
        \A a \in FracArgs, b \in FracArgs :
            group1 = FracOf(a, b) => returned = a \o <<"/">> \o b

Entries == Range(greek) \cup Range(symbols)

\* C6: once the Greek and symbol tables have been applied, a fragment that is
\* a table key has become that key's own glyph, for every entry of the two
\* tables, and \alpha + \beta has become the two glyphs around " + ".
C6_EveryKeyBecomesItsGlyph ==
    cpc = "frac" =>
        /\ \A e \in Entries : latex = e[1] => result = <<e[2]>>
        /\ latex = AlphaPlusBeta => result = <<"U+03B1", " ", "+", " ", "U+03B2">>

-----------------------------------------------------------------------------
(* Properties of interactive_mode *)

IsMessage(u) == u # <<>> /\ ~StartsWithSlash(u)

Accepted == "next message will be written"

\* C10: in a turn of the loop with a write pending, a message (non-empty, not
\* starting with "/") is passed to write_file for the pending file and to
\* nothing else, leaves conversation_history as it was and clears write_mode;
\* an empty input or a slash command other than an accepted /write leaves
\* write_mode as it was; an accepted /write sets write_mode to its argument,
\* pending or not; with no write pending a message goes to send_message; and
\* nothing but a turn changes write_mode.
C10_WriteModeOneShot ==
    [][LET u == user_input'
       IN  IF turns' = turns + 1
           THEN /\ (write_mode # None /\ IsMessage(u)) =>
                     /\ calls' = Append(calls, Call("write_file", write_mode, u))
                     /\ conversation_history' = conversation_history
                     /\ write_mode' = None
                /\ (write_mode # None /\ ~IsMessage(u) /\ console' # Accepted) =>
                     write_mode' = write_mode
                /\ console' = Accepted =>
                     /\ StartsWithSlash(u)
                     /\ write_mode' # None
                     /\ HasAt(u, Len(u) - Len(write_mode'), write_mode')
                /\ u = Write \o <<" ", "f">> =>
                     (console' = Accepted /\ write_mode' = <<"f">>)
                /\ u = Write \o <<" ", " ", "g">> =>
                     (console' = Accepted /\ write_mode' = <<"g">>)
                /\ (write_mode = None /\ IsMessage(u)) =>
                     /\ Len(calls') = Len(calls) + 1
                     /\ calls'[Len(calls')].name = "send_message"
                     /\ calls'[Len(calls')].arg1 = u
                     /\ write_mode' = None
           ELSE write_mode' = write_mode]_vars

\* /write f, then a slash command, then a message: the message was written to
\* f and not sent
C10_Witness ==
    /\ turns = 3
    /\ write_mode = None
    /\ Len(calls) = 2
    /\ calls[1].name = "read_file"
    /\ calls[2] = Call("write_file", <<"f">>, <<"h", "i">>)
    /\ conversation_history = <<>>

-----------------------------------------------------------------------------
(* Properties of send_message *)

IsPrefix(p, s) == Len(p) <= Len(s) /\ SubSeq(s, 1, Len(p)) = p

\* no clear_history among the events i..j of log
NoClearBetween(log, i, j) == \A k \in i..j : log[k].ev # "clear"

\* the user entry of every failed call is, at its place, in the messages of
\* every request posted after it, as long as no clear_history came between
UnansweredStaysInRequests ==
    \A i \in 1..Len(posted), j \in 1..Len(posted) :
        (i < j /\ posted[i].ev = "failed" /\ posted[j].ev = "post"
               /\ NoClearBetween(posted, i, j)) =>
            /\ posted[i].at + 1 <= Len(posted[j].messages)
            /\ posted[j].messages[posted[i].at + 1] = Entry("user", posted[i].message)

\* a request is posted with the system prompt followed by a history that
\* already ends with the user entry of this call
UserEntryBeforeRequest ==
    \A k \in (Len(posted) + 1)..Len(posted') :
        posted'[k].ev = "post" =>
            /\ conversation_history # <<>>
            /\ conversation_history[Len(conversation_history)] = Entry("user", message)
            /\ posted'[k].messages = RequestMessages(conversation_history)

\* the history changes only by the user entry at the start of a call, by the
\* assistant entry in the step in which the call returns the received
\* response, or by clear_history
AssistantEntryOnlyOnReturn ==
    conversation_history' # conversation_history =>
        \/ /\ spc \in Idle /\ spc' = "post"
           /\ conversation_history' = Append(conversation_history, Entry("user", message'))
        \/ /\ spc \in {"post", "streaming"} /\ spc' = "returned"
           /\ conversation_history' = Append(conversation_history, Entry("assistant", ret'))
           /\ spc = "streaming" => ret' = full_response
        \/ /\ spc \in Idle /\ spc' = spc
           /\ conversation_history' = <<>>

\* a call that fails returns the error text and leaves the history ending
\* with its own user entry
FailureKeepsUserEntry ==
    (spc # "failed" /\ spc' = "failed") =>
        /\ IsPrefix(ErrorPrefix, ret')
        /\ conversation_history' = conversation_history
        /\ conversation_history' # <<>>
        /\ conversation_history'[Len(conversation_history')] = Entry("user", message)

\* C11: send_message appends the user entry before the request is posted and
\* the assistant entry only when the response has been received; a failed
\* call returns "Error communicating with AI: ..." and leaves its user entry
\* last in the history, and that entry is in the messages of every later
\* request until clear_history is called.
C11_FailedCallKeepsUserEntry ==
    [][ /\ UserEntryBeforeRequest
        /\ AssistantEntryOnlyOnReturn
        /\ FailureKeepsUserEntry
        /\ UnansweredStaysInRequests' ]_vars

\* a call failed, the next call streamed an answer: the history holds the
\* unanswered message, the second message and the answer
C11_Witness ==
    /\ spc = "returned"
    /\ stream
    /\ full_response # <<>>
    /\ Len(posted) = 3
    /\ posted[2].ev = "failed"
    /\ posted[3].ev = "post"
    /\ Len(conversation_history) = 3
    /\ conversation_history[1] = Entry("user", posted[2].message)
    /\ conversation_history[2] = Entry("user", message)
    /\ conversation_history[3] = Entry("assistant", full_response)

====
